---- MODULE Spec2Model ----
\* ELPIS parser: the bit readers of src/src/elpis.rs (read_bits_motorola_be,
\* read_bits_intel_le) and the frame parser of src/src/lib.rs (dissect_callback,
\* parse_elpis_payload) with the ELPIS_MESSAGES mutex.
EXTENDS Integers, Sequences, FiniteSets, TLC

VARIABLES
    data,       \* bit reader: the byte buffer handed to the readers
    start,      \* bit reader: requested start bit
    length,     \* bit reader: requested bit count
    resBE,      \* result of read_bits_motorola_be(data, start, length), or NoRes
    resLE,      \* result of read_bits_intel_le(data, start, length), or NoRes
    procs,      \* frame parser: the invocations of dissect_callback that run
    inv,        \* frame parser: the state of each invocation
    mutex,      \* the ELPIS_MESSAGES mutex: its holder (0: free) and poison flag
    alive       \* FALSE once a panic has aborted the process

bitVars == <<data, start, length, resBE, resLE>>
frameVars == <<procs, inv, mutex, alive>>
vars == <<data, start, length, resBE, resLE, procs, inv, mutex, alive>>

\* ---------------------------------------------------------------- bounds
MaxBytes == 3       \* longest enumerated reader buffer, in bytes
MaxStart == 25      \* largest enumerated start bit
MaxLength == 18     \* largest enumerated bit count

\* byte values the enumerated buffers are built of
ByteVals == {18, 52, 165}

\* the literal vector of the test read_big_endian_data: 12 34 56 78
TestVector == <<18, 52, 86, 120>>

RECURSIVE SeqsUpTo(_, _)
SeqsUpTo(S, n) ==
    IF n = 0 THEN {<<>>}
    ELSE LET shorter == SeqsUpTo(S, n - 1)
         IN  shorter \cup {Append(s, b) : s \in {t \in shorter : Len(t) = n - 1}, b \in S}

Buffers == SeqsUpTo(ByteVals, MaxBytes) \cup {TestVector}

\* ---------------------------------------------------------------- results
Ok(v)   == [ok |-> TRUE,  val |-> v, err |-> "none"]
Err(e)  == [ok |-> FALSE, val |-> 0, err |-> e]
NoRes   == [ok |-> FALSE, val |-> 0, err |-> "not called"]

RECURSIVE Pow2(_)
Pow2(n) == IF n = 0 THEN 1 ELSE 2 * Pow2(n - 1)

\* ------------------------------------------------ bitstream_io::BitReader
\* The reader state is the byte position of the Cursor and the queue of the
\* bits of the last byte read that were not consumed yet (in reading order).
\* endian is "BE" (most significant bit of a byte first) or "LE".

BitOf(b, i) == (b \div Pow2(i)) % 2

\* the eight bits of a byte in the order the reader hands them out
ByteBits(endian, b) ==
    IF endian = "BE" THEN [k \in 1..8 |-> BitOf(b, 8 - k)]
                     ELSE [k \in 1..8 |-> BitOf(b, k - 1)]

\* value of a run of bits: BE pushes each new bit below the earlier ones,
\* LE puts each new bit above the earlier ones
RECURSIVE BitsValue(_, _)
BitsValue(endian, bits) ==
    IF bits = <<>> THEN 0
    ELSE IF endian = "BE"
         THEN BitsValue(endian, SubSeq(bits, 1, Len(bits) - 1)) * 2 + bits[Len(bits)]
         ELSE bits[1] + 2 * BitsValue(endian, Tail(bits))

\* accumulate `more` (k bits) onto acc, which already holds `have` bits
Push(endian, acc, have, more) ==
    IF endian = "BE" THEN acc * Pow2(Len(more)) + BitsValue(endian, more)
                     ELSE acc + BitsValue(endian, more) * Pow2(have)

Reader(pos, q) == [pos |-> pos, q |-> q, ok |-> TRUE]
Broken         == [pos |-> 0, q |-> <<>>, ok |-> FALSE]

\* BitRead::skip(bits) for bits < 8 on an aligned reader: reads one byte when
\* bits > 0 (end of data is an error) and keeps its remaining bits queued
skip(endian, buf, pos, bits) ==
    IF bits = 0 THEN Reader(pos, <<>>)
    ELSE IF pos >= Len(buf) THEN Broken
    ELSE Reader(pos + 1, SubSeq(ByteBits(endian, buf[pos + 1]), bits + 1, 8))

\* BitReader::seek_bits(SeekFrom::Start(p)): byte-align, seek the Cursor to
\* byte p / 8 (a Cursor may be positioned past its end), skip p % 8 bits
seek_bits(endian, buf, p) == skip(endian, buf, p \div 8, p % 8)

\* whole bytes, then the leading bits of one more byte
RECURSIVE read_aligned(_, _, _, _, _, _)
read_aligned(endian, buf, pos, nbytes, acc, have) ==
    IF nbytes = 0 THEN [ok |-> TRUE, pos |-> pos, acc |-> acc, have |-> have]
    ELSE IF pos >= Len(buf) THEN [ok |-> FALSE, pos |-> pos, acc |-> acc, have |-> have]
    ELSE read_aligned(endian, buf, pos + 1, nbytes - 1,
                      Push(endian, acc, have, ByteBits(endian, buf[pos + 1])), have + 8)

\* BitRead::read::<u128>(bits)
read(endian, buf, r, bits) ==
    IF bits > 128 THEN Err("InvalidInput")
    ELSE IF bits <= Len(r.q) THEN Ok(BitsValue(endian, SubSeq(r.q, 1, bits)))
    ELSE LET have0 == Len(r.q)
             acc0  == BitsValue(endian, r.q)
             rest  == bits - have0
             al    == read_aligned(endian, buf, r.pos, rest \div 8, acc0, have0)
         IN  IF ~al.ok THEN Err("OutOfRange")
             ELSE IF rest % 8 = 0 THEN Ok(al.acc)
             ELSE IF al.pos >= Len(buf) THEN Err("OutOfRange")
             ELSE Ok(Push(endian, al.acc, al.have,
                          SubSeq(ByteBits(endian, buf[al.pos + 1]), 1, rest % 8)))

\* ------------------------------------------------------------ elpis.rs
\* lines 105-108: the Motorola start bit as a position of the MSB-first stream
\* slips of that conversion: none made, and 8 - bit_select for 7 - bit_select
SliceStartPlain(s) == s
SliceStartOffByOne(s) == (s \div 8) * 8 + (8 - (s % 8))
slice_start(s) == (s \div 8) * 8 + (7 - (s % 8))

read_bits_motorola_be(buf, s, n) ==
    LET r == seek_bits("BE", buf, slice_start(s))
    IN  IF ~r.ok THEN Err("SeekFailed") ELSE read("BE", buf, r, n)

\* read_bits_intel_le with the bounds check of line 123 left out
IntelNoPrecheck(buf, s, n) ==
    LET r == seek_bits("LE", buf, s)
    IN  IF ~r.ok THEN Err("SeekFailed") ELSE read("LE", buf, r, n)

read_bits_intel_le(buf, s, n) ==
    IF n + s > Len(buf) * 8 THEN Err("OutOfRange")
    ELSE LET r == seek_bits("LE", buf, s)
         IN  IF ~r.ok THEN Err("SeekFailed") ELSE read("LE", buf, r, n)


\* ================================================================ lib.rs
\* ---------------------------------------------------------------- bounds
MaxMsgs == 2        \* most well-formed sub-messages in an enumerated buffer
MaxPayload == 2     \* longest payload of an enumerated sub-message, in bytes

Procs == {1, 2}

\* ------------------------------------------------------ Schema Registry
\* elpis.rs lines 17-57: the fields of the definitions the parser reads.
\* hasStart = FALSE stands for start: None.
Signal(name, hasStart, st, len, be) ==
    [name |-> name, hasStart |-> hasStart, start |-> st, length |-> len,
     is_big_endian |-> be]

\* the loaded messages.json: message 0 has a Motorola byte and an Intel nibble
\* of the second byte, message 1 only signals that are skipped
ELPIS_MESSAGES ==
    (0 :> [name |-> "A", signals |-> << Signal("a0", FALSE, 0, 8, TRUE),
                                        Signal("a1", TRUE, 8, 4, FALSE) >>]) @@
    (1 :> [name |-> "B", signals |-> << Signal("b0", TRUE, 3, 0, TRUE),
                                        Signal("b1", TRUE, 0, 128, FALSE) >>])

\* ElpisMessages::get_def_by_id
HasDef(id) == id \in DOMAIN ELPIS_MESSAGES
get_def_by_id(id) == ELPIS_MESSAGES[id]

\* --------------------------------------------------------- wire format
\* four bytes, big-endian two's complement, of a 32-bit integer
EncI32(v) ==
    << (v \div 16777216) % 256, (v \div 65536) % 256, (v \div 256) % 256, v % 256 >>

\* ByteReader::read::<i32>() at byte offset `at` (big-endian)
ReadI32(buf, at) ==
    LET b1 == buf[at + 1]
        hi == IF b1 >= 128 THEN b1 - 256 ELSE b1
    IN  hi * 16777216 + buf[at + 2] * 65536 + buf[at + 3] * 256 + buf[at + 4]

Chunk(id, plen, actual) == EncI32(id) \o EncI32(plen) \o SubSeq(TestVector, 1, actual)

GoodChunks == {Chunk(id, n, n) : id \in 0..2, n \in 0..MaxPayload}

\* what may follow the well-formed sub-messages of an enumerated buffer
Tails ==
    { <<>>,
      Chunk(-1, 1, 1), Chunk(-1, -1, 0), Chunk(-1, 100, 1),
      Chunk(0, 100, 1), Chunk(0, -1, 0), Chunk(2, 2, 1),
      <<0, 0, 0>>, EncI32(0) \o <<0>> }

RECURSIVE GoodRuns(_)
GoodRuns(n) ==
    IF n = 0 THEN {<<>>}
    ELSE LET shorter == GoodRuns(n - 1)
         IN  shorter \cup {r \o c : r \in shorter, c \in GoodChunks}

FrameBuffers == {r \o t : r \in GoodRuns(MaxMsgs), t \in Tails}

\* the buffers of the runs with two concurrent invocations
ConcBuffers ==
    { Chunk(0, 2, 2) \o Chunk(2, 1, 1),
      Chunk(1, 0, 0) \o Chunk(-1, 1, 1),
      Chunk(0, 1, 1),
      Chunk(0, 100, 1),
      <<0, 0, 0>>,
      EncI32(2) \o <<0>> }

Inputs == IF procs = {1} THEN FrameBuffers ELSE ConcBuffers

\* ------------------------------------------------------ invocation state
NoHdr == [at |-> -1, id |-> 0, plen |-> 0]

Idle ==
    [pc |-> "idle", buf |-> <<>>, cursor |-> 0, hdr |-> NoHdr, err |-> "none",
     out |-> <<>>, sigs |-> <<>>, sig |-> 0, slices |-> {}, iters |-> 0]

Terminal == {"done", "failed", "panicked"}

remaining(i) == Len(i.buf) - i.cursor

\* lines 264-270: the two header checks, in the order of the source
LengthInvalidNoUpper(plen, remaining_size) == plen < 0
LengthInvalid(plen, remaining_size) == plen < 0 \/ plen > remaining_size

HeaderErrorIdFirst(id, plen, remaining_size) ==
    IF id < 0 THEN "InvalidId"
    ELSE IF LengthInvalid(plen, remaining_size) THEN "InvalidLength"
    ELSE "none"

HeaderError(id, plen, remaining_size) ==
    IF LengthInvalid(plen, remaining_size) THEN "InvalidLength"
    ELSE IF id < 0 THEN "InvalidId"
    ELSE "none"

\* line 273: the bytes the frame subtree spans
FrameLength(payload_length) == payload_length + 8

\* lines 167-171
signal_start(signal) ==
    IF signal.hasStart THEN signal.start
    ELSE IF signal.is_big_endian THEN 7 ELSE 0

\* the payload_length bytes at the cursor (get_slice_here, line 159)
get_slice_here(buf, at, len) == [k \in 1..len |-> buf[at + k]]

\* lines 190-196
ReadSignal(payload, signal) ==
    IF signal.is_big_endian
    THEN read_bits_motorola_be(payload, signal_start(signal), signal.length)
    ELSE read_bits_intel_le(payload, signal_start(signal), signal.length)

\* ------------------------------------------------------------- actions
Set(p, rec) == inv' = [inv EXCEPT ![p] = rec]

\* dissect_callback is entered with a buffer (lines 229-243)
Invoke(p) ==
    /\ alive
    /\ p \in procs
    /\ inv[p].pc = "idle"
    /\ \E b \in Inputs : Set(p, [Idle EXCEPT !.pc = "top", !.buf = b])
    /\ UNCHANGED <<procs, mutex, alive, bitVars>>

\* lines 245-257: nothing remains at the top of the loop
BufferExhausted(p) ==
    /\ alive
    /\ inv[p].pc = "top"
    /\ remaining(inv[p]) = 0
    /\ Set(p, [inv[p] EXCEPT !.pc = "done", !.iters = @ + 1])
    /\ UNCHANGED <<procs, mutex, alive, bitVars>>

\* lines 259-277: read and check the header, open the frame subtree
ReadHeader(p) ==
    LET i == inv[p]
        rem == remaining(i)
    IN  /\ alive
        /\ i.pc = "top"
        /\ rem > 0
        /\ IF rem < 8
           THEN \* buffer.read::<i32>()? fails on either field
                Set(p, [i EXCEPT !.pc = "failed", !.err = "ReadError",
                                 !.iters = @ + 1])
           ELSE LET id   == ReadI32(i.buf, i.cursor)
                    plen == ReadI32(i.buf, i.cursor + 4)
                    e    == HeaderError(id, plen, rem - 8)
                    h    == [at |-> i.cursor, id |-> id, plen |-> plen]
                IN  Set(p, [i EXCEPT !.pc = IF e = "none" THEN "lock" ELSE "failed",
                                     !.err = e, !.hdr = h, !.iters = @ + 1])
        /\ UNCHANGED <<procs, mutex, alive, bitVars>>

\* a panic unwinds the invocation, or aborts the process when it reaches the
\* extern "C" frame of the host; a guard dropped while panicking poisons
Panic(p, cause) ==
    /\ Set(p, [inv[p] EXCEPT !.pc = "panicked", !.err = cause])
    /\ mutex' = [holder |-> IF mutex.holder = p THEN 0 ELSE mutex.holder,
                 poisoned |-> TRUE]
    /\ alive' \in BOOLEAN
    /\ UNCHANGED <<procs, bitVars>>

\* lines 280-317: ELPIS_MESSAGES.lock().unwrap(), the lookup, the id, name and
\* length fields; with a definition, parse_elpis_payload is entered (line 159)
LockAndLookup(p) ==
    LET i == inv[p]
    IN  /\ alive
        /\ i.pc = "lock"
        /\ mutex.holder = 0
        /\ IF mutex.poisoned
           THEN Panic(p, "PoisonError")
           ELSE /\ mutex' = [mutex EXCEPT !.holder = p]
                /\ IF HasDef(i.hdr.id)
                   THEN Set(p, [i EXCEPT
                            !.cursor = @ + 8,
                            !.slices = @ \cup {[at |-> i.cursor + 8, len |-> i.hdr.plen]},
                            !.sig = 1,
                            !.pc = IF get_def_by_id(i.hdr.id).signals = <<>>
                                   THEN "payload" ELSE "decode"])
                   ELSE Set(p, [i EXCEPT !.cursor = @ + 8, !.pc = "payload"])
                /\ UNCHANGED <<procs, alive, bitVars>>

\* lines 162-223: one signal of the definition
DecodeSignal(p) ==
    LET i       == inv[p]
        def     == get_def_by_id(i.hdr.id)
        signal  == def.signals[i.sig]
        payload == get_slice_here(i.buf, i.cursor, i.hdr.plen)
        r       == ReadSignal(payload, signal)
        next    == IF i.sig = Len(def.signals) THEN "payload" ELSE "decode"
    IN  /\ alive
        /\ i.pc = "decode"
        /\ IF signal.length = 0 \/ signal.length \div 8 >= 16
           THEN /\ Set(p, [i EXCEPT !.sig = @ + 1, !.pc = next])
                /\ UNCHANGED <<procs, mutex, alive, bitVars>>
           ELSE IF ~r.ok
           THEN \* the ? of lines 192/195, then the panic! of line 327
                Panic(p, "ReadFailed")
           ELSE /\ Set(p, [i EXCEPT
                        !.sigs = Append(@, [name |-> signal.name, val |-> r.val]),
                        !.sig = @ + 1, !.pc = next])
                /\ UNCHANGED <<procs, mutex, alive, bitVars>>

\* lines 330-336: the payload field; the iteration ends and drops the guard
AddPayload(p) ==
    LET i == inv[p]
        name == IF HasDef(i.hdr.id) THEN get_def_by_id(i.hdr.id).name ELSE "unknown"
    IN  /\ alive
        /\ i.pc = "payload"
        /\ Set(p, [i EXCEPT
                !.cursor = i.hdr.at + FrameLength(i.hdr.plen),
                !.out = Append(@, [at |-> i.hdr.at, id |-> i.hdr.id,
                                   plen |-> i.hdr.plen, name |-> name,
                                   sigs |-> i.sigs]),
                !.sigs = <<>>, !.sig = 0, !.pc = "top"])
        /\ mutex' = [mutex EXCEPT !.holder = 0]
        /\ UNCHANGED <<procs, alive, bitVars>>

\* lines 341-344: the callback returns; the slot takes the next packet
Return(p) ==
    /\ alive
    /\ inv[p].pc \in Terminal
    /\ Set(p, Idle)
    /\ UNCHANGED <<procs, mutex, alive, bitVars>>

Next ==
    \/ \E p \in Procs : Invoke(p)
    \/ \E p \in Procs : BufferExhausted(p)
    \/ \E p \in Procs : ReadHeader(p)
    \/ \E p \in Procs : LockAndLookup(p)
    \/ \E p \in Procs : DecodeSignal(p)
    \/ \E p \in Procs : AddPayload(p)
    \/ \E p \in Procs : Return(p)

BitsIdle ==
    /\ data = <<>> /\ start = 0 /\ length = 0
    /\ resBE = NoRes /\ resLE = NoRes

InitFrame ==
    /\ inv = [p \in Procs |-> Idle]
    /\ mutex = [holder |-> 0, poisoned |-> FALSE]
    /\ alive = TRUE

\* one invocation at a time, over all enumerated buffers
Init == BitsIdle /\ InitFrame /\ procs = {1}
Spec == Init /\ [][Next]_vars

\* two invocations at once
InitConc == BitsIdle /\ InitFrame /\ procs = Procs
SpecConc == InitConc /\ [][Next]_vars

\* ------------------------------------------------ reference framing
\* the sub-messages of a buffer by the wire format alone: headers at
\* consecutive offsets, each id >= 0 and 0 <= payload_length <= what remains;
\* ok iff the buffer is nothing but such sub-messages
RECURSIVE RefFrames(_, _)
RefFrames(buf, at) ==
    IF at = Len(buf) THEN [ok |-> TRUE, frames |-> <<>>]
    ELSE IF Len(buf) - at < 8 THEN [ok |-> FALSE, frames |-> <<>>]
    ELSE LET id   == ReadI32(buf, at)
             plen == ReadI32(buf, at + 4)
         IN  IF id < 0 \/ plen < 0 \/ plen > Len(buf) - at - 8
             THEN [ok |-> FALSE, frames |-> <<>>]
             ELSE LET rest == RefFrames(buf, at + 8 + plen)
                  IN  [ok |-> rest.ok,
                       frames |-> <<[at |-> at, id |-> id, plen |-> plen]>> \o rest.frames]

\* the signals of one payload, each decoded on its own: a signal that cannot
\* be read is marked and the later ones are still decoded
RECURSIVE RefSignals(_, _)
RefSignals(payload, signals) ==
    IF signals = <<>> THEN [ok |-> TRUE, sigs |-> <<>>]
    ELSE LET sg   == Head(signals)
             rest == RefSignals(payload, Tail(signals))
             r    == ReadSignal(payload, sg)
         IN  IF sg.length = 0 \/ sg.length >= 128 THEN rest
             ELSE IF ~r.ok THEN [ok |-> FALSE, sigs |-> rest.sigs]
             ELSE [ok |-> rest.ok,
                   sigs |-> <<[name |-> sg.name, val |-> r.val]>> \o rest.sigs]

RefSub(buf, f) ==
    IF HasDef(f.id)
    THEN LET d == RefSignals(SubSeq(buf, f.at + 9, f.at + 8 + f.plen),
                             get_def_by_id(f.id).signals)
         IN  [ok |-> d.ok,
              sub |-> [at |-> f.at, id |-> f.id, plen |-> f.plen,
                       name |-> get_def_by_id(f.id).name, sigs |-> d.sigs]]
    ELSE [ok |-> TRUE,
          sub |-> [at |-> f.at, id |-> f.id, plen |-> f.plen,
                   name |-> "unknown", sigs |-> <<>>]]

\* the output of a buffer decoded on its own
RefOutput(buf) ==
    LET fr == RefFrames(buf, 0).frames
    IN  [k \in 1..Len(fr) |-> RefSub(buf, fr[k]).sub]

\* well-formed, and every declared signal fits its payload
Clean(buf) ==
    LET ref == RefFrames(buf, 0)
    IN  ref.ok /\ \A k \in 1..Len(ref.frames) : RefSub(buf, ref.frames[k]).ok

RECURSIVE SumBefore(_, _)
SumBefore(out, k) ==
    IF k <= 1 THEN 0 ELSE SumBefore(out, k - 1) + 8 + out[k - 1].plen

HeaderOf(o) == [at |-> o.at, id |-> o.id, plen |-> o.plen]
HeaderRead(i) == i.hdr.at >= 0
AfterHeader(i) == Len(i.buf) - (i.hdr.at + 8)

\* C1: a payload is sliced only after 0 <= payload_length <= bytes after the
\* header has passed: every slice taken lies inside the buffer, and a header
\* whose payload_length is negative or too large fails with InvalidLength with
\* no slice taken for it.
C1_LengthCheckedBeforeSlice ==
    \A p \in Procs :
        LET i == inv[p]
        IN  /\ \A s \in i.slices : s.len >= 0 /\ s.at + s.len <= Len(i.buf)
            /\ (HeaderRead(i) /\ (i.hdr.plen < 0 \/ i.hdr.plen > AfterHeader(i)))
                   => /\ i.pc = "failed"
                      /\ i.err = "InvalidLength"
                      /\ ~\E s \in i.slices : s.at = i.hdr.at + 8
            /\ i.pc \in {"lock", "decode", "payload"}
                   => 0 <= i.hdr.plen /\ i.hdr.at + 8 + i.hdr.plen <= Len(i.buf)

C1_Witness ==
    \E p \in Procs :
        /\ inv[p].pc = "failed" /\ inv[p].err = "InvalidLength"
        /\ inv[p].hdr.plen > AfterHeader(inv[p])
        /\ inv[p].hdr.at > 0
        /\ inv[p].slices # {}

\* C2 (as stated): a signal whose read fails is skipped with a diagnostic; the
\* failure never ends the sub-message, the buffer or the process.
C2_SignalFailureRecoverable ==
    \A p \in Procs :
        inv[p].err = "ReadFailed" => (inv[p].pc \notin Terminal /\ alive)

\* C6 (as stated): a header with a negative identifier fails with InvalidId,
\* whatever its payload-length field holds.
C6_Original ==
    \A p \in Procs :
        (HeaderRead(inv[p]) /\ inv[p].hdr.id < 0)
            => (inv[p].pc = "failed" /\ inv[p].err = "InvalidId")

\* C6 (amended): a complete header with a negative identifier makes the Frame
\* Parser fail at that header and process no further sub-message; the error is
\* InvalidLength when the payload-length field is negative or exceeds the
\* bytes after the header (that check comes first), and InvalidId otherwise.
C6_NegativeIdFails ==
    \A p \in Procs :
        LET i == inv[p]
        IN  (HeaderRead(i) /\ i.hdr.id < 0)
                => /\ i.pc = "failed"
                   /\ i.err = IF i.hdr.plen < 0 \/ i.hdr.plen > AfterHeader(i)
                              THEN "InvalidLength" ELSE "InvalidId"
                   /\ i.cursor = i.hdr.at
                   /\ \A k \in 1..Len(i.out) : i.out[k].at < i.hdr.at

C6_Witness ==
    \E p \in Procs :
        /\ inv[p].pc = "failed" /\ inv[p].err = "InvalidId"
        /\ inv[p].hdr.id < 0
        /\ inv[p].hdr.plen > 0 /\ inv[p].hdr.plen <= AfterHeader(inv[p])
        /\ Len(inv[p].out) >= 1

\* C7 (as stated): every sub-message with a valid header advances the cursor
\* by 8 + payload_length whatever its id and signals: the k-th header is read at
\* the sum of the 8 + payload_length before it, an unknown id is emitted with
\* no signals, and a buffer of well-formed sub-messages has them all emitted in
\* order.
C7_CursorAdvance ==
    \A p \in Procs :
        LET i   == inv[p]
            ref == RefFrames(i.buf, 0)
        IN  /\ \A k \in 1..Len(i.out) :
                   /\ i.out[k].at = SumBefore(i.out, k)
                   /\ ~HasDef(i.out[k].id)
                          => (i.out[k].name = "unknown" /\ i.out[k].sigs = <<>>)
            /\ (i.pc \in Terminal /\ ref.ok)
                   => /\ i.pc = "done"
                      /\ [k \in 1..Len(i.out) |-> HeaderOf(i.out[k])] = ref.frames

\* C8 (as stated): the loop ends in Done exactly when nothing remains after
\* only well-formed sub-messages and otherwise in Failed, within
\* (buffer length / 8) + 1 iterations.
C8_Terminates ==
    \A p \in Procs :
        LET i == inv[p]
        IN  /\ i.iters <= (Len(i.buf) \div 8) + 1
            /\ i.pc \in Terminal
                   => /\ i.pc \in {"done", "failed"}
                      /\ (i.pc = "done") <=> RefFrames(i.buf, 0).ok

\* C9 (as stated): no invocation holds the registry lock while it runs the
\* Signal Decoder.
C9_LockOnlyForLookup ==
    \A p \in Procs : inv[p].pc = "decode" => mutex.holder # p

\* C10 (as stated): whatever earlier invocations ended in, an invocation on a
\* well-formed buffer whose signals fit reaches Done with the output it has
\* on its own.
C10_Independent ==
    \A p \in Procs :
        (inv[p].pc \in Terminal /\ Clean(inv[p].buf))
            => (inv[p].pc = "done" /\ inv[p].out = RefOutput(inv[p].buf))

\* ------------------------------------------------------ bit reader runs
InitBits ==
    /\ InitFrame /\ procs = {}
    /\ data \in Buffers
    /\ start \in 0..MaxStart
    /\ length \in 0..MaxLength
    /\ resBE = NoRes
    /\ resLE = NoRes

CallMotorola ==
    /\ resBE = NoRes
    /\ resBE' = read_bits_motorola_be(data, start, length)
    /\ UNCHANGED <<data, start, length, resLE>>
    /\ UNCHANGED frameVars

CallIntel ==
    /\ resLE = NoRes
    /\ resLE' = read_bits_intel_le(data, start, length)
    /\ UNCHANGED <<data, start, length, resBE>>
    /\ UNCHANGED frameVars

NextBits == CallMotorola \/ CallIntel

SpecBits == InitBits /\ [][NextBits]_vars

\* ------------------------------------------- reference bit-stream values
\* bit i of the buffer seen as one MSB-first / LSB-first stream of bits
StreamBitMSB(buf, i) == BitOf(buf[(i \div 8) + 1], 7 - (i % 8))
StreamBitLSB(buf, i) == BitOf(buf[(i \div 8) + 1], i % 8)

\* n bits from stream position p, the first one the most significant
RECURSIVE RefMSB(_, _, _)
RefMSB(buf, p, n) ==
    IF n = 0 THEN 0
    ELSE StreamBitMSB(buf, p) * Pow2(n - 1) + RefMSB(buf, p + 1, n - 1)

\* n bits from stream position p, the first one the least significant
RECURSIVE RefLSB(_, _, _)
RefLSB(buf, p, n) ==
    IF n = 0 THEN 0
    ELSE StreamBitLSB(buf, p) + 2 * RefLSB(buf, p + 1, n - 1)

\* the MSB-first stream position of Motorola start bit s
MotorolaPos(s) == 8 * (s \div 8) + (7 - (s % 8))

TotalBits == 8 * Len(data)
CalledBE == resBE # NoRes
CalledLE == resLE # NoRes

\* C3 (as stated): whenever start + length exceeds the bit count of the
\* buffer, both readers return an error and no value.
C3_Original ==
    start + length > TotalBits =>
        /\ CalledBE => ~resBE.ok
        /\ CalledLE => ~resLE.ok

\* C3 (amended): read_bits_intel_le returns an out-of-range error whenever
\* start + length exceeds the bit count; read_bits_motorola_be returns an error
\* whenever length >= 1 and stream position + length exceeds the bit count,
\* the stream position being 8*(start/8) + 7 - start%8; and a value returned
\* by either reader for length >= 1 is built from bits inside the buffer only.
C3_OutOfRangeFails ==
    /\ (CalledLE /\ start + length > TotalBits) => resLE = Err("OutOfRange")
    /\ (CalledBE /\ length >= 1 /\ MotorolaPos(start) + length > TotalBits) => ~resBE.ok
    /\ (CalledBE /\ resBE.ok /\ length >= 1) => MotorolaPos(start) + length <= TotalBits
    /\ (CalledLE /\ resLE.ok) => start + length <= TotalBits

C3_Witness ==
    /\ CalledBE /\ CalledLE
    /\ Len(data) >= 1 /\ length >= 1 /\ start < TotalBits
    /\ start + length > TotalBits
    /\ MotorolaPos(start) + length > TotalBits
    /\ ~resBE.ok /\ ~resLE.ok

C5_Original ==
    (CalledBE /\ start = 0 /\ length = 16 /\ Len(data) >= 2)
        => resBE = Ok(data[1] * 256 + data[2])

\* C5 (amended): the 16 bits that begin the buffer are read with Motorola
\* start bit 7: read_bits_motorola_be(buffer, 7, 16) is
\* buffer[0] * 256 + buffer[1] for every buffer of at least 2 bytes, 0x1234 on
\* 12 34 56 78; start bit 0 is stream position 7 and yields 0x1A2B there.
C5_FirstTwoBytes ==
    /\ (CalledBE /\ start = 7 /\ length = 16 /\ Len(data) >= 2)
            => resBE = Ok(data[1] * 256 + data[2])
    /\ (CalledBE /\ start = 7 /\ length = 16 /\ data = TestVector) => resBE = Ok(4660)
    /\ (CalledBE /\ start = 0 /\ length = 16 /\ data = TestVector) => resBE = Ok(6699)

C5_Witness ==
    /\ data = TestVector /\ start = 7 /\ length = 16
    /\ resBE = Ok(4660)
====
